---- MODULE Spec2Model ----
(***************************************************************************)
(* Model of src/simulator/synthea_encounter_producer.py: the date parsing  *)
(* and age derivation helpers, the fault injector, the cyclic event        *)
(* generator and the publisher driver (the __main__ block).                *)
(*                                                                         *)
(* Python values that may be None are modelled as options: None is the     *)
(* empty tuple and a present value v is the one-element tuple <<v>>.       *)
(* A date string is modelled by the text it holds: the format it is        *)
(* written in and the year, month and day digits it carries.               *)
(***************************************************************************)
EXTENDS Integers, Sequences, FiniteSets, TLC

VARIABLES
    input,            \* the two CSV files as read: [patients, encounters]
    patients_map,     \* result of load_patients (line 215)
    max_events,       \* line 224
    pc,               \* position of the main program
    gen,              \* generator object: "none", "created", "running", "closed"
    encounters_list,  \* line 163, materialized on the first pull
    idx,              \* line 167, the cursor
    n,                \* line 168
    built,            \* history: per generator step, the cursor read and the event before injection
    rand,             \* the random draw of the last generator step, in hundredths
    first_fault,      \* history: the first generator step whose event the injector changed, 0 if none
    event,            \* the loop variable of line 227: the last event yielded
    pulls,            \* number of next(events) calls made by the for loop
    count,            \* line 225 / 232
    producer,         \* "none", "open", "closed"
    channel_log,      \* history: operations performed on the producer, in order
    exc,              \* the exception propagating, or "none"
    interrupted,      \* history: a KeyboardInterrupt was delivered
    finished          \* history: line 240 was executed

vars == <<input, patients_map, max_events, pc, gen, encounters_list, idx, n, built,
          first_fault, rand, event, pulls, count, producer, channel_log, exc, interrupted, finished>>

\* ---------------------------------------------------------------- bounds
\* the longest encounter file, and the largest max_events (1000 in the source)
MaxEnc == 2
MaxEventsBound == 3

\* ---------------------------------------------------------------- options
None == <<>>
Some(x) == <<x>>
Val(o) == o[1]

Max(a, b) == IF a >= b THEN a ELSE b

\* ---------------------------------------------------------------- texts
\* fmt names the pattern the text is written in: "mdy" for %m/%d/%Y, "ymd" for
\* %Y-%m-%d, "iso" for %Y-%m-%dT%H:%M:%SZ; any other fmt matches no pattern.
\* The time of day is left out: compute_age_at_encounter reads year, month, day.
Text(fmt, y, m, d) == [fmt |-> fmt, y |-> y, m |-> m, d |-> d]
EmptyStr == Text("empty", 0, 0, 0)

IsLeap(y) == (y % 4 = 0 /\ y % 100 # 0) \/ y % 400 = 0

DaysIn(y, m) ==
    IF m \in {4, 6, 9, 11} THEN 30
    ELSE IF m = 2 THEN (IF IsLeap(y) THEN 29 ELSE 28)
    ELSE 31

\* what datetime.strptime accepts for the three patterns
StrptimeOk(t, fmt) ==
    /\ t.fmt = fmt
    /\ t.y \in 1..9999
    /\ t.m \in 1..12
    /\ t.d \in 1..DaysIn(t.y, t.m)

DateTime(t) == [year |-> t.y, month |-> t.m, day |-> t.d]

RECURSIVE TryFormats(_, _)
TryFormats(t, fmts) ==
    IF fmts = <<>> THEN None
    ELSE IF StrptimeOk(t, Head(fmts)) THEN Some(DateTime(t))
    ELSE TryFormats(t, Tail(fmts))

parse_birthdate(raw) ==
    IF raw = None \/ Val(raw) = EmptyStr THEN None
    ELSE TryFormats(Val(raw), <<"mdy", "ymd", "iso">>)

parse_encounter_start(raw) ==
    IF raw = None \/ Val(raw) = EmptyStr THEN None
    ELSE TryFormats(Val(raw), <<"iso", "mdy", "ymd">>)

\* Python tuple comparison (a1, a2) < (b1, b2)
TupleLess(a1, a2, b1, b2) == a1 < b1 \/ (a1 = b1 /\ a2 < b2)

\* the age without the "birthday not yet reached" adjustment of lines 72-73
compute_age_no_adjust(birth_dt, encounter_dt) ==
    IF birth_dt = None \/ encounter_dt = None THEN None
    ELSE Some(Max(Val(encounter_dt).year - Val(birth_dt).year, 0))

\* the age without the clamp of line 74
compute_age_no_clamp(birth_dt, encounter_dt) ==
    IF birth_dt = None \/ encounter_dt = None THEN None
    ELSE LET b == Val(birth_dt)
             e == Val(encounter_dt)
             years == e.year - b.year
         IN  Some(IF TupleLess(e.month, e.day, b.month, b.day) THEN years - 1 ELSE years)

compute_age_at_encounter(birth_dt, encounter_dt) ==
    IF birth_dt = None \/ encounter_dt = None THEN None
    ELSE LET b == Val(birth_dt)
             e == Val(encounter_dt)
             years == e.year - b.year
             adj == IF TupleLess(e.month, e.day, b.month, b.day) THEN years - 1 ELSE years
         IN  Some(Max(adj, 0))

\* ---------------------------------------------------------------- fault injector
\* random.random() is modelled in hundredths: 0.05 is 5, 0.10 is 10
AgeBand == 5
AdmissionBand == 10
AgeSentinel == 150

\* the draws the model takes: both sides of each band edge
RandDraws == {AgeBand - 1, AgeBand, AdmissionBand - 1, AdmissionBand}

\* datetime.now(timezone.utc).replace(microsecond=0).isoformat() + "Z"
NowText(y, m, d) == Text("iso+00:00Z", y, m, d)
WallClock == {NowText(2026, 11, 2)}

\* the injector with "if" in place of the "elif" of line 89
inject_dirty_data_both(ev, r, now) ==
    LET ev1 == IF r < AgeBand THEN [ev EXCEPT !.age = Some(AgeSentinel)] ELSE ev
    IN  IF r < AdmissionBand THEN [ev1 EXCEPT !.admission_time = Some(now)] ELSE ev1

inject_dirty_data(ev, r, now) ==
    IF r < AgeBand THEN [ev EXCEPT !.age = Some(AgeSentinel)]
    ELSE IF r < AdmissionBand THEN [ev EXCEPT !.admission_time = Some(now)]
    ELSE ev

\* ---------------------------------------------------------------- numeric coercion
Decimal(v) == [kind |-> "decimal", val |-> v]
EmptyCost == [kind |-> "empty", val |-> 0]
WordCost == [kind |-> "word", val |-> 0]

safe_float(value) ==
    IF value = None \/ Val(value) = EmptyCost THEN None
    ELSE IF Val(value).kind = "decimal" THEN Some(Val(value).val)
    ELSE None

\* ---------------------------------------------------------------- input files
Patient(birth, gender) ==
    [birthdate_raw |-> birth, gender |-> gender, race |-> "white",
     ethnicity |-> "nonhispanic", city |-> "Boston", state |-> "MA", zip |-> "02101"]

\* P1 is the patient of the end-to-end scenario; P2's birth date has the
\* slash format but names no calendar day; P3 is born after the encounters.
PatientsFile ==
    [p \in {"P1", "P2", "P3"} |->
        CASE p = "P1" -> Patient(Some(Text("mdy", 2019, 2, 17)), Some("M"))
          [] p = "P2" -> Patient(Some(Text("mdy", 2019, 2, 30)), Some("F"))
          [] p = "P3" -> Patient(Some(Text("ymd", 2021, 6, 15)), Some("F"))]

Row(id, patient, start, cls, cost) ==
    [Id |-> Some(id), START |-> start, STOP |-> Some(Text("iso", 2024, 3, 2)),
     PATIENT |-> patient, ORGANIZATION |-> Some("O1"), PROVIDER |-> Some("D1"),
     PAYER |-> Some("Y1"), ENCOUNTERCLASS |-> Some(cls),
     BASE_ENCOUNTER_COST |-> cost, TOTAL_CLAIM_COST |-> Some(Decimal(250)),
     PAYER_COVERAGE |-> Some(EmptyCost)]

EncounterRows ==
    << Row("E1", Some("P1"), Some(Text("iso", 2020, 2, 16)), "wellness", Some(Decimal(100))),
       Row("E2", Some("P1"), Some(Text("mdy", 2024, 3, 1)), "ambulatory", Some(WordCost)),
       Row("E3", Some("P1"), Some(Text("ymd", 2019, 1, 10)), "emergency", None),
       Row("E4", Some("PX"), Some(Text("iso", 2020, 2, 16)), "urgentcare", Some(Decimal(75))),
       Row("E5", None, Some(Text("iso", 2024, 3, 1)), "inpatient", Some(Decimal(75))),
       Row("E6", Some("P2"), Some(Text("iso", 2024, 3, 1)), "wellness", Some(Decimal(75))),
       Row("E7", Some("P3"), Some(Text("word", 0, 0, 0)), "outpatient", Some(Decimal(75))),
       Row("E8", Some("P3"), Some(Text("iso", 2020, 2, 16)), "wellness", Some(Decimal(75))) >>

\* the encounter files of the model: rows of EncounterRows in file order
RECURSIVE PickRows(_)
PickRows(ixs) ==
    IF ixs = <<>> THEN <<>> ELSE <<EncounterRows[Head(ixs)]>> \o PickRows(Tail(ixs))

IndexSeqs ==
    UNION {[1..len -> 1..Len(EncounterRows)] : len \in 0..MaxEnc}

EncounterFiles ==
    {PickRows(ixs) : ixs \in {s \in IndexSeqs : \A i \in 1..(Len(s) - 1) : s[i] < s[i + 1]}}

\* ---------------------------------------------------------------- generator
\* patients_map.get(patient_id, {}): the empty dict is modelled as None
PatientLookup(pmap, patient_id) ==
    IF patient_id # None /\ Val(patient_id) \in DOMAIN pmap
    THEN Some(pmap[Val(patient_id)])
    ELSE None

\* patient.get("birthdate_raw", "")
BirthdateRaw(patient) == IF patient = None THEN Some(EmptyStr) ELSE Val(patient).birthdate_raw

\* patient.get("gender", ""), as line 177 does for the birth date
GenderOfDefaultEmpty(patient) == IF patient = None THEN Some("") ELSE Val(patient).gender

\* patient.get("gender")
GenderOf(patient) == IF patient = None THEN None ELSE Val(patient).gender

\* lines 174-197: the event payload built from one raw encounter
BuildEvent(enc, pmap) ==
    LET patient_id == enc.PATIENT
        patient == PatientLookup(pmap, patient_id)
        birth_dt == parse_birthdate(BirthdateRaw(patient))
        start_dt == parse_encounter_start(enc.START)
        age == compute_age_at_encounter(birth_dt, start_dt)
    IN  [encounter_id |-> enc.Id,
         patient_id |-> patient_id,
         gender |-> GenderOf(patient),
         age |-> age,
         department |-> enc.ENCOUNTERCLASS,
         admission_time |-> enc.START,
         discharge_time |-> enc.STOP,
         organization_id |-> enc.ORGANIZATION,
         provider_id |-> enc.PROVIDER,
         payer_id |-> enc.PAYER,
         base_encounter_cost |-> safe_float(enc.BASE_ENCOUNTER_COST),
         total_claim_cost |-> safe_float(enc.TOTAL_CLAIM_COST),
         payer_coverage |-> safe_float(enc.PAYER_COVERAGE)]

\* the cursor wrapping one element early
NextIdxWrapEarly(i, len) == IF i + 1 >= len - 1 THEN 0 ELSE i + 1

\* line 172
NextIdx(i, len) == (i + 1) % len

\* the injector's admission time written through to the raw encounter
EncAfterStepAliased(enc, r, now) ==
    IF r >= AgeBand /\ r < AdmissionBand THEN [enc EXCEPT !.START = Some(now)] ELSE enc

\* lines 183-199: the payload is a new dict and the injector writes to it
\* alone, so the raw encounter read at the cursor is what it was
EncAfterStep(enc, r, now) == enc

\* ---------------------------------------------------------------- main program
TryBody == {"L224", "L227", "L228", "L231", "L232", "L238", "L240"}

Count(log, op) == Cardinality({i \in 1..Len(log) : log[i] = op})

Init ==
    /\ input \in [patients : {PatientsFile}, encounters : EncounterFiles]
    /\ patients_map = input.patients
    /\ max_events \in 0..MaxEventsBound
    /\ pc = "L217"
    /\ gen = "none"
    /\ encounters_list = <<>>
    /\ idx = 0
    /\ n = 0
    /\ built = <<>>
    /\ rand = AdmissionBand
    /\ first_fault = 0
    /\ event = None
    /\ pulls = 0
    /\ count = 0
    /\ producer = "none"
    /\ channel_log = <<>>
    /\ exc = "none"
    /\ interrupted = FALSE
    /\ finished = FALSE

\* line 217: calling a generator function runs none of its body
Construct ==
    /\ pc = "L217"
    /\ gen' = "created"
    /\ pc' = "L220"
    /\ UNCHANGED <<input, patients_map, max_events, encounters_list, idx, n, built, first_fault, rand,
                   event, pulls, count, producer, channel_log, exc, interrupted, finished>>

\* line 220
CreateProducer ==
    /\ pc = "L220"
    /\ producer' = "open"
    /\ pc' = "L221"
    /\ UNCHANGED <<input, patients_map, max_events, gen, encounters_list, idx, n, built, first_fault,
                   rand, event, pulls, count, channel_log, exc, interrupted, finished>>

\* line 221
PrintStarted ==
    /\ pc = "L221"
    /\ pc' = "L224"
    /\ UNCHANGED <<input, patients_map, max_events, gen, encounters_list, idx, n, built, first_fault,
                   rand, event, pulls, count, producer, channel_log, exc, interrupted,
                   finished>>

\* lines 223-225
EnterTry ==
    /\ pc = "L224"
    /\ count' = 0
    /\ pc' = "L227"
    /\ UNCHANGED <<input, patients_map, max_events, gen, encounters_list, idx, n, built, first_fault,
                   rand, event, pulls, producer, channel_log, exc, interrupted, finished>>

\* lines 170-199: one turn of the generator's loop, up to the yield
GeneratorStep(list, i, len) ==
    \E r \in RandDraws, now \in WallClock :
        LET enc == list[i + 1]
            ev == BuildEvent(enc, patients_map)
        IN  /\ idx' = NextIdx(i, len)
            /\ built' = Append(built, [src |-> i, event |-> ev])
            /\ rand' = r
            /\ first_fault' = IF first_fault = 0 /\ inject_dirty_data(ev, r, now) # ev
                               THEN Len(built) + 1 ELSE first_fault
            /\ event' = Some(inject_dirty_data(ev, r, now))
            /\ encounters_list' = [list EXCEPT ![i + 1] = EncAfterStep(enc, r, now)]

\* line 227: next(events). The first call runs lines 163-168 first.
Pull ==
    /\ pc = "L227"
    /\ pulls' = pulls + 1
    /\ IF gen = "created"
       THEN IF input.encounters = <<>>
            THEN /\ gen' = "closed"
                 /\ encounters_list' = input.encounters
                 /\ exc' = "RuntimeError"
                 /\ pc' = "L244"
                 /\ UNCHANGED <<idx, n, built, rand, first_fault, event>>
            ELSE /\ gen' = "running"
                 /\ n' = Len(input.encounters)
                 /\ GeneratorStep(input.encounters, 0, Len(input.encounters))
                 /\ pc' = "L228"
                 /\ UNCHANGED exc
       ELSE /\ gen = "running"
            /\ GeneratorStep(encounters_list, idx, n)
            /\ pc' = "L228"
            /\ UNCHANGED <<gen, n, exc>>
    /\ UNCHANGED <<input, patients_map, max_events, count, producer, channel_log,
                   interrupted, finished>>

\* lines 228-229
CheckCount ==
    /\ pc = "L228"
    /\ pc' = IF count >= max_events THEN "L240" ELSE "L231"
    /\ UNCHANGED <<input, patients_map, max_events, gen, encounters_list, idx, n, built, first_fault,
                   rand, event, pulls, count, producer, channel_log, exc, interrupted,
                   finished>>

\* line 231
Send ==
    /\ pc = "L231"
    /\ channel_log' = Append(channel_log, "send")
    /\ pc' = "L232"
    /\ UNCHANGED <<input, patients_map, max_events, gen, encounters_list, idx, n, built, first_fault,
                   rand, event, pulls, count, producer, exc, interrupted, finished>>

\* line 231, the send raising: nothing catches it, the finally clause runs
SendFails ==
    /\ pc = "L231"
    /\ exc' = "KafkaError"
    /\ pc' = "L244"
    /\ UNCHANGED <<input, patients_map, max_events, gen, encounters_list, idx, n, built, first_fault,
                   rand, event, pulls, count, producer, channel_log, interrupted, finished>>

\* line 232
IncCount ==
    /\ pc = "L232"
    /\ count' = count + 1
    /\ pc' = "L238"
    /\ UNCHANGED <<input, patients_map, max_events, gen, encounters_list, idx, n, built, first_fault,
                   rand, event, pulls, producer, channel_log, exc, interrupted, finished>>

\* lines 235-238
Sleep ==
    /\ pc = "L238"
    /\ pc' = "L227"
    /\ UNCHANGED <<input, patients_map, max_events, gen, encounters_list, idx, n, built, first_fault,
                   rand, event, pulls, count, producer, channel_log, exc, interrupted,
                   finished>>

\* line 240
PrintFinished ==
    /\ pc = "L240"
    /\ finished' = TRUE
    /\ pc' = "L244"
    /\ UNCHANGED <<input, patients_map, max_events, gen, encounters_list, idx, n, built, first_fault,
                   rand, event, pulls, count, producer, channel_log, exc, interrupted>>

\* lines 241-242
HandleInterrupt ==
    /\ pc = "L242"
    /\ pc' = "L244"
    /\ UNCHANGED <<input, patients_map, max_events, gen, encounters_list, idx, n, built, first_fault,
                   rand, event, pulls, count, producer, channel_log, exc, interrupted,
                   finished>>

\* line 244
Flush ==
    /\ pc = "L244"
    /\ channel_log' = Append(channel_log, "flush")
    /\ pc' = "L245"
    /\ UNCHANGED <<input, patients_map, max_events, gen, encounters_list, idx, n, built, first_fault,
                   rand, event, pulls, count, producer, exc, interrupted, finished>>

\* line 245
Close ==
    /\ pc = "L245"
    /\ channel_log' = Append(channel_log, "close")
    /\ producer' = "closed"
    /\ pc' = "L246"
    /\ UNCHANGED <<input, patients_map, max_events, gen, encounters_list, idx, n, built, first_fault,
                   rand, event, pulls, count, exc, interrupted, finished>>

\* line 246, then the pending exception (if any) leaves the program
PrintClosed ==
    /\ pc = "L246"
    /\ pc' = "exit"
    /\ UNCHANGED <<input, patients_map, max_events, gen, encounters_list, idx, n, built, first_fault,
                   rand, event, pulls, count, producer, channel_log, exc, interrupted,
                   finished>>

\* Where a KeyboardInterrupt delivered at position p takes the program:
\* inside the try body the except clause of line 241 catches it; inside the
\* except clause it propagates through the finally clause; anywhere else
\* (before the try statement, or inside the finally clause) it ends the program.
InterruptTarget(p) ==
    IF p \in TryBody THEN "L242"
    ELSE IF p = "L242" THEN "L244"
    ELSE "exit"

\* a KeyboardInterrupt (the user's Ctrl-C) arrives
Interrupt ==
    /\ pc # "exit"
    /\ interrupted' = TRUE
    /\ pc' = InterruptTarget(pc)
    /\ exc' = IF pc \in TryBody THEN exc ELSE "KeyboardInterrupt"
    /\ UNCHANGED <<input, patients_map, max_events, gen, encounters_list, idx, n, built, first_fault,
                   rand, event, pulls, count, producer, channel_log, finished>>

Next ==
    \/ Construct
    \/ CreateProducer
    \/ PrintStarted
    \/ EnterTry
    \/ Pull
    \/ CheckCount
    \/ Send
    \/ SendFails
    \/ IncCount
    \/ Sleep
    \/ PrintFinished
    \/ HandleInterrupt
    \/ Flush
    \/ Close
    \/ PrintClosed
    \/ Interrupt

Spec == Init /\ [][Next]_vars

\* ---------------------------------------------------------------- properties
Sends == Count(channel_log, "send")
Flushes == Count(channel_log, "flush")
Closes == Count(channel_log, "close")
Steps == Len(built)

\* the raw encounter, the event before injection and the event yielded by the last step
LastEnc == input.encounters[built[Steps].src + 1]
LastBuilt == built[Steps].event
LastEvent == Val(event)

UnknownPatient(enc) ==
    enc.PATIENT = None \/ Val(enc.PATIENT) \notin DOMAIN input.patients

BirthOf(enc) == parse_birthdate(BirthdateRaw(PatientLookup(input.patients, enc.PATIENT)))
StartOf(enc) == parse_encounter_start(enc.START)
BothDatesParse(enc) == BirthOf(enc) # None /\ StartOf(enc) # None

\* the year difference, less one when the encounter's (month, day) is before the birth's
YearDifference(enc) ==
    LET b == Val(BirthOf(enc))
        e == Val(StartOf(enc))
    IN  IF e.month < b.month \/ (e.month = b.month /\ e.day < b.day)
        THEN e.year - b.year - 1
        ELSE e.year - b.year

OtherFields ==
    {"encounter_id", "patient_id", "gender", "department", "discharge_time",
     "organization_id", "provider_id", "payer_id", "base_encounter_cost",
     "total_claim_cost", "payer_coverage"}

\* C1: once the producer has been acquired, the program exits only after
\* exactly one flush followed by exactly one close, with no send after the flush.
C1_ReleasedOnEveryExit ==
    (pc = "exit" /\ producer # "none") =>
        /\ Flushes = 1
        /\ Closes = 1
        /\ Len(channel_log) >= 2
        /\ channel_log[Len(channel_log) - 1] = "flush"
        /\ channel_log[Len(channel_log)] = "close"

\* C2: the generator never runs more than max_events steps, and a run that
\* ends by normal completion has run as many generator steps as it has sent events.
C2_EveryPulledEventIsSent ==
    /\ Steps <= max_events
    /\ (pc = "exit" /\ finished) => Steps = Sends

\* C3: count and the number of sends never exceed max_events, and a run that
\* exits without an interrupt and without a publish failure has passed the
\* normal-exit point with exactly max_events sends.
C3_ExactlyMaxEventsSent ==
    /\ count <= max_events
    /\ Sends <= max_events
    /\ (pc = "exit" /\ ~interrupted /\ exc # "KafkaError") =>
            (finished /\ Sends = max_events /\ count = max_events)

\* C4: the configuration error of an empty encounter sequence is raised by the
\* construction call: before the producer is acquired, before the first pull
\* and before any event is built.
C4_EmptyFailsAtConstruction ==
    exc = "RuntimeError" => (producer = "none" /\ pulls = 0 /\ built = <<>>)

\* C5: the k-th event (k = 0, 1, ...) is derived from the raw encounter at
\* index k mod N, events k and k+N come from the same raw encounter, and the
\* cursor starts at 0 and stays within 0..N-1.
C5_CyclicCursor ==
    /\ gen \in {"none", "created"} => (idx = 0 /\ built = <<>>)
    /\ gen = "running" =>
        /\ n = Len(input.encounters)
        /\ n > 0
        /\ idx \in 0..(n - 1)
        /\ idx = Steps % n
        /\ \A k \in 1..Steps :
            /\ built[k].src = (k - 1) % n
            /\ built[k].event = BuildEvent(input.encounters[((k - 1) % n) + 1], input.patients)
            /\ (k + n <= Steps => built[k + n].src = built[k].src)

C5_Witness ==
    gen = "running" /\ n = 2 /\ Steps = 3 /\ idx = 1 /\ built[3].src = 0

\* C6 as stated: the event of an encounter whose patient is unknown or missing
\* has gender absent and age absent.
C6_UnknownPatientAbsentFields ==
    (built # <<>> /\ UnknownPatient(LastEnc)) =>
        (event # None /\ LastEvent.gender = None /\ LastEvent.age = None)

\* C6 amended: the event of an encounter whose patient is unknown or missing
\* has gender absent, and age absent unless the injector's draw fell in the
\* first band, in which case age is the sentinel 150; the step yields an event.
C6_UnknownPatientAbsentUnlessInjected ==
    (built # <<>> /\ UnknownPatient(LastEnc)) =>
        /\ event # None
        /\ LastEvent.gender = None
        /\ LastBuilt.age = None
        /\ LastEvent.age = (IF rand < AgeBand THEN Some(AgeSentinel) ELSE None)

C6_Witness ==
    /\ built # <<>>
    /\ UnknownPatient(LastEnc)
    /\ rand < AgeBand
    /\ LastEvent.age = Some(AgeSentinel)

\* C7 as stated: for every pair of valid dates, also when the encounter is
\* before the birth, the computed age is non-negative and equals the year
\* difference, less one when the encounter's (month, day) is before the birth's.
C7_AgeIsYearDifference ==
    \A k \in 1..Steps :
        LET enc == input.encounters[built[k].src + 1]
        IN  BothDatesParse(enc) =>
                /\ built[k].event.age = Some(YearDifference(enc))
                /\ YearDifference(enc) >= 0

\* C7 amended: for every pair of valid dates the computed age is that year
\* difference when it is non-negative, and 0 when it is negative.
C7_AgeIsClampedYearDifference ==
    \A k \in 1..Steps :
        LET enc == input.encounters[built[k].src + 1]
        IN  BothDatesParse(enc) =>
                /\ built[k].event.age # None
                /\ Val(built[k].event.age) >= 0
                /\ built[k].event.age =
                       Some(IF YearDifference(enc) >= 0 THEN YearDifference(enc) ELSE 0)

C7_Witness ==
    /\ built # <<>>
    /\ BothDatesParse(LastEnc)
    /\ YearDifference(LastEnc) < 0
    /\ LastBuilt.age = Some(0)

\* C8: one call of the injector changes age or admission_time or neither,
\* never both, and no other field of the event.
C8_AtMostOneFieldChanged ==
    built # <<>> =>
        /\ event # None
        /\ \A f \in OtherFields : LastEvent[f] = LastBuilt[f]
        /\ ~(LastEvent.age # LastBuilt.age /\ LastEvent.admission_time # LastBuilt.admission_time)

C8_Witness ==
    /\ built # <<>>
    /\ rand < AgeBand
    /\ LastEvent.age # LastBuilt.age
    /\ LastEvent.admission_time = LastBuilt.admission_time

\* C9: the age of a yielded event is absent or a non-negative integer; when the
\* birth date or the encounter start does not parse it is absent, unless the
\* injector wrote the sentinel 150 in that step.
C9_AgeAbsentOrNonNegative ==
    built # <<>> =>
        /\ event # None
        /\ (LastEvent.age = None \/ Val(LastEvent.age) \in Nat)
        /\ (LastBuilt.age = None \/ Val(LastBuilt.age) \in Nat)
        /\ ~BothDatesParse(LastEnc) =>
               \/ LastEvent.age = None
               \/ (rand < AgeBand /\ LastEvent.age = Some(AgeSentinel))

C9_Witness ==
    /\ built # <<>>
    /\ LastEnc.PATIENT = Some("P2")
    /\ BirthOf(LastEnc) = None
    /\ StartOf(LastEnc) # None
    /\ rand >= AgeBand
    /\ LastEvent.age = None

\* C10: generator steps and the injector leave the materialized encounter
\* sequence and the patient map as they were built, so the events before
\* injection of steps k and k+N are equal.
C10_InputsNeverModified ==
    /\ patients_map = input.patients
    /\ gen = "running" =>
        /\ encounters_list = input.encounters
        /\ \A k \in 1..Steps : (k + n <= Steps => built[k + n].event = built[k].event)

C10_Witness ==
    /\ gen = "running"
    /\ first_fault > 0
    /\ first_fault + n <= Steps
    /\ built[first_fault + n].event = built[first_fault].event

====
